---- MODULE Spec2Model ----
(***************************************************************************)
(* Certificate name filler (pdf-automation-toolkit).                       *)
(*                                                                         *)
(* Three programs share the placement calculator:                          *)
(*   app = "auto"    AutoCertificateApp  (auto_certificate_name_filler.py) *)
(*   app = "review"  CertificateApp      (manual review, class based)      *)
(*   app = "script"  the module-level manual review script                 *)
(*                                                                         *)
(* Conventions of the model                                                *)
(*  - a Python str is a sequence of one-character strings;                 *)
(*  - None is "" for a path, << >> for a list, 0 for last_font_size and    *)
(*    NoRect / NoPix for the dict and the pixmap (Python tests all of      *)
(*    them by truthiness only);                                            *)
(*  - the anchor x, y of a certificate is kept in HALF units (twice the    *)
(*    Python float), so that Python's true division by 2 stays exact.      *)
(***************************************************************************)
EXTENDS Integers, Sequences, FiniteSets, TLC

VARIABLES
    app,              \* which of the three programs runs
    pdf_path,         \* self.pdf_path
    pix,              \* self.pix (page pixmap of the previewed template)
    img,              \* self.img (preview image), "" when None
    names,            \* self.names
    rect_info,        \* self.rect_info
    selected_font,    \* self.selected_font (combobox variable)
    output_dir,       \* self.output_dir (auto mode)
    area_status,      \* self.area_status
    progress_status,  \* self.progress_status; the last line printed by the script
    progress_value,   \* self.progress_bar['value'] (auto mode)
    start_button,     \* "disabled" / "normal"
    last_font_size,   \* self.last_font_size / last_font_size
    pc,               \* position of the running handler
    idx,              \* 1-based position of the generation loop in names
    last_font,        \* local last_font / last_selected_font of the review loop
    initial_size,     \* default size handed to the open review dialog
    written,          \* output paths written by the current run, in order
    cert,             \* arguments of the last generate_certificate call
    args,             \* arguments of the last direct call of the calculator
    raised,           \* the measurement call that raised in the current run
    lines,            \* clean_participant_names: the lines read from the input file
    names_sorted,     \* clean_participant_names: names_sorted
    theme_name,       \* self.theme_name (auto mode)
    search_size,      \* calculate_initial_font_size: the local size
    measured          \* sizes at which the running search has called stringWidth

vars == <<app, pdf_path, pix, img, names, rect_info, selected_font, output_dir,
          area_status, progress_status, progress_value, start_button,
          last_font_size, pc, idx, last_font, initial_size, written, cert, args, raised,
          lines, names_sorted, theme_name, search_size, measured>>

\* Variables of clean_participant_names alone.
clean_vars == <<lines, names_sorted>>
search_vars == <<search_size, measured>>

-----------------------------------------------------------------------------
(* Bounds and program constants *)

MaxNames == 2          \* longest names list loaded
MaxLines == 3          \* longest input file of clean_participant_names

MinSize == 5           \* floor of the font-size search
MaxCandidate == 120    \* ceiling of the font-size search
MinScaleMax == 10      \* smallest upper end of the size slider
ScaleHeadroom == 40    \* the size slider reaches default_size + 40
MinOffsetLimit == 10   \* smallest half-range of an offset slider

-----------------------------------------------------------------------------
(* Plain helpers *)

Min(a, b) == IF a <= b THEN a ELSE b
Max(a, b) == IF a >= b THEN a ELSE b
Abs(a) == IF a >= 0 THEN a ELSE 0 - a
SetMax(S) == CHOOSE m \in S : \A x \in S : x <= m
Range(s) == {s[i] : i \in DOMAIN s}

\* The names a names file can hold (stripped, non-blank lines).
NameSet == { <<"a", "_", "b">>, <<"a", ":", "b">> }

RECURSIVE SeqsUpTo(_, _)
SeqsUpTo(S, n) ==
    IF n = 0 THEN { << >> }
    ELSE LET shorter == SeqsUpTo(S, n - 1)
         IN shorter \cup { Append(s, e) : s \in {t \in shorter : Len(t) = n - 1}, e \in S }

NameLists == SeqsUpTo(NameSet, MaxNames)

\* The fonts registered by load_fonts (available_fonts); the first one is the
\* initial selection.  MeasuredFonts are the font ids the measurement
\* capability is exercised with when the calculator is checked on its own.
Fonts == {"Lin", "Wavy"}
FirstFont == "Lin"
MeasuredFonts == Fonts \cup {"Flat"}

\* Template files the user can pick, with the height of page 0 as rendered.
Templates == {"t1.pdf", "t2.pdf"}
PageHeight(t) == IF t = "t1.pdf" THEN 140 ELSE 150
PageHeights == {PageHeight(t) : t \in Templates}

\* Display coordinates a mouse event can report: the positions sampled in the
\* apps, and the grid the calculator is checked on.
Points == { <<10, 6>>, <<210, 46>>, <<210, 6>> }
XCoords == {0, 10, 210}
YCoords == {0, 6, 10, 46, 136, 140}
CalcPoints == XCoords \X YCoords
\* Page heights handed to calculate_rect: those of the templates and the empty page.
CalcHeights == PageHeights \cup {0}

NoRect == [none |-> TRUE]
NoPix == [none |-> TRUE]
NoCert == [none |-> TRUE]
\* No measurement call has raised.
NoRaise == [none |-> TRUE]
NoArgs == [op |-> "", rect_start |-> << >>, rect_end |-> << >>, pix_height |-> 0,
           text |-> << >>, font |-> "", size |-> 0, x_offset |-> 0, y_offset |-> 0]

-----------------------------------------------------------------------------
(* The measurement capability: reportlab's stringWidth(text, font, size),   *)
(* the sum of the glyph advances scaled by the size.  Each font id stands   *)
(* for one shape of measure function:                                       *)
(*   Lin   linear in the size ("a_b" measures 10 * size),                   *)
(*   Flat  independent of the size,                                         *)
(*   Wavy  not monotone in the size (even sizes are wide).                  *)

glyph_units(c) ==
    CASE c = " " -> 1
      [] c = "_" -> 2
      [] OTHER   -> 4

RECURSIVE text_units(_)
text_units(text) ==
    IF text = << >> THEN 0 ELSE glyph_units(Head(text)) + text_units(Tail(text))

stringWidth(text, font, size) ==
    CASE font = "Lin"  -> size * text_units(text)
      [] font = "Flat" -> 18 * text_units(text)
      [] OTHER         -> IF size % 2 = 0 THEN 30 * text_units(text)
                                          ELSE size * (text_units(text) - 5)


-----------------------------------------------------------------------------
(* sanitize_filename and the output paths *)

IllegalChars == {"\\", "/", ":", "*", "?", "\"", "<", ">", "|"}

sanitize_filename(name) ==
    [i \in DOMAIN name |-> IF name[i] \in IllegalChars THEN "_" ELSE name[i]]

\* str.replace(' ', '_')
replace_spaces(name) ==
    [i \in DOMAIN name |-> IF name[i] = " " THEN "_" ELSE name[i]]

\* output_filename of generate_certificate
auto_output_filename(dir, name) ==
    <<dir, "/", "certificate_">> \o sanitize_filename(name) \o <<".pdf">>

review_output_filename(name) ==
    <<"certificate_">> \o replace_spaces(name) \o <<".pdf">>

-----------------------------------------------------------------------------
(* The placement calculator *)

\* Variant: the lower edge taken from the wrong end of the flipped axis.
calculate_rect_unflipped(rect_start, rect_end, pix_height) ==
    LET x1 == rect_start[1]
        y1 == rect_start[2]
        x2 == rect_end[1]
        y2 == rect_end[2]
    IN [rect_width  |-> Abs(x2 - x1),
        rect_height |-> Abs((pix_height - y2) - (pix_height - y1)),
        x_left      |-> Min(x1, x2),
        y_bottom    |-> pix_height - Min(y1, y2),
        tk_left     |-> Min(x1, x2),
        tk_top      |-> Min(y1, y2),
        tk_right    |-> Max(x1, x2),
        tk_bottom   |-> Max(y1, y2)]

\* Variant: the first corner taken for the top-left one.
calculate_rect_first_corner(rect_start, rect_end, pix_height) ==
    LET x1 == rect_start[1]
        y1 == rect_start[2]
        x2 == rect_end[1]
        y2 == rect_end[2]
    IN [rect_width  |-> Abs(x2 - x1),
        rect_height |-> Abs((pix_height - y2) - (pix_height - y1)),
        x_left      |-> x1,
        y_bottom    |-> Min(pix_height - y1, pix_height - y2),
        tk_left     |-> x1,
        tk_top      |-> y1,
        tk_right    |-> x2,
        tk_bottom   |-> y2]

\* Variant: the lower edge left in canvas coordinates.
calculate_rect_canvas_bottom(rect_start, rect_end, pix_height) ==
    LET x1 == rect_start[1]
        y1 == rect_start[2]
        x2 == rect_end[1]
        y2 == rect_end[2]
    IN [rect_width  |-> Abs(x2 - x1),
        rect_height |-> Abs((pix_height - y2) - (pix_height - y1)),
        x_left      |-> Min(x1, x2),
        y_bottom    |-> Max(y1, y2),
        tk_left     |-> Min(x1, x2),
        tk_top      |-> Min(y1, y2),
        tk_right    |-> Max(x1, x2),
        tk_bottom   |-> Max(y1, y2)]

\* Variant: the differences taken without abs.
calculate_rect_signed(rect_start, rect_end, pix_height) ==
    LET x1 == rect_start[1]
        y1 == rect_start[2]
        x2 == rect_end[1]
        y2 == rect_end[2]
    IN [rect_width  |-> x2 - x1,
        rect_height |-> (pix_height - y1) - (pix_height - y2),
        x_left      |-> Min(x1, x2),
        y_bottom    |-> Min(pix_height - y1, pix_height - y2),
        tk_left     |-> Min(x1, x2),
        tk_top      |-> Min(y1, y2),
        tk_right    |-> Max(x1, x2),
        tk_bottom   |-> Max(y1, y2)]

calculate_rect(rect_start, rect_end, pix_height) ==
    LET x1 == rect_start[1]
        y1 == rect_start[2]
        x2 == rect_end[1]
        y2 == rect_end[2]
        pdf_x1 == x1
        pdf_y1 == pix_height - y1
        pdf_x2 == x2
        pdf_y2 == pix_height - y2
    IN [rect_width  |-> Abs(pdf_x2 - pdf_x1),
        rect_height |-> Abs(pdf_y2 - pdf_y1),
        x_left      |-> Min(pdf_x1, pdf_x2),
        y_bottom    |-> Min(pdf_y1, pdf_y2),
        tk_left     |-> Min(x1, x2),
        tk_top      |-> Min(y1, y2),
        tk_right    |-> Max(x1, x2),
        tk_bottom   |-> Max(y1, y2)]

\* Variant: a width equal to the rectangle's is refused.
size_fits_strict(text_value, font, rect, size) ==
    /\ stringWidth(text_value, font, size) < rect.rect_width
    /\ size <= rect.rect_height

\* The test of the loop body of calculate_initial_font_size.
size_fits(text_value, font, rect, size) ==
    /\ stringWidth(text_value, font, size) <= rect.rect_width
    /\ size <= rect.rect_height

\* Variant: the first fit is looked for by bisection, as if the sizes that
\* fit were a lower segment of lo .. hi.
RECURSIVE shrink_to_fit_bisect(_, _, _, _, _)
shrink_to_fit_bisect(text_value, font, rect, hi, lo) ==
    IF hi < lo THEN 0
    ELSE LET mid == (hi + lo) \div 2
         IN IF size_fits(text_value, font, rect, mid)
            THEN LET upper == shrink_to_fit_bisect(text_value, font, rect, hi, mid + 1)
                 IN IF upper # 0 THEN upper ELSE mid
            ELSE shrink_to_fit_bisect(text_value, font, rect, mid - 1, lo)

\* The loop of calculate_initial_font_size over size = hi, hi - 1, ..., lo:
\* the first size visited that passes the test, 0 when the loop runs out.
\* The sizes are visited in the loop's order; the range is halved only to
\* keep the evaluation shallow.
RECURSIVE shrink_to_fit(_, _, _, _, _)
shrink_to_fit(text_value, font, rect, hi, lo) ==
    IF hi < lo THEN 0
    ELSE IF hi = lo
    THEN IF size_fits(text_value, font, rect, hi) THEN hi ELSE 0
    ELSE LET mid == (hi + lo) \div 2
             upper == shrink_to_fit(text_value, font, rect, hi, mid + 1)
         IN IF upper # 0 THEN upper
            ELSE shrink_to_fit(text_value, font, rect, mid, lo)

\* Variant: the search starts at the rectangle height, without the cap of 120.
calculate_initial_font_size_uncapped(text_value, font, rect) ==
    LET max_size == IF rect.rect_height = 0 THEN MinSize ELSE rect.rect_height
        found == shrink_to_fit(text_value, font, rect, max_size, MinSize)
    IN IF found # 0 THEN found ELSE MinSize

\* Variant: when nothing fits the starting size is returned, not the floor.
calculate_initial_font_size_no_floor(text_value, font, rect) ==
    LET m == Min(rect.rect_height, MaxCandidate)
        max_size == IF m = 0 THEN MinSize ELSE m
        found == shrink_to_fit(text_value, font, rect, max_size, MinSize)
    IN IF found # 0 THEN found ELSE max_size

calculate_initial_font_size(text_value, font, rect) ==
    LET m == Min(rect.rect_height, MaxCandidate)
        max_size == IF m = 0 THEN MinSize ELSE m      \* int(...) or 5
        found == shrink_to_fit(text_value, font, rect, max_size, MinSize)
    IN IF found # 0 THEN found ELSE MinSize

\* Variant: floor division (//) where the code divides exactly (/).
compute_positions_floor(name_text, font, size_var, x_offset, y_offset, rect) ==
    LET current_size == Max(MinSize, size_var)
        text_width == stringWidth(name_text, font, current_size)
        base_x == 2 * rect.x_left + 2 * ((rect.rect_width - text_width) \div 2)
        base_y == 2 * rect.y_bottom + 2 * ((rect.rect_height - current_size) \div 2)
    IN [font |-> font,
        size |-> current_size,
        x    |-> base_x + 2 * x_offset,
        y    |-> base_y + 2 * y_offset]

\* Variant: the text starts at the centre of the rectangle.
compute_positions_centre_start(name_text, font, size_var, x_offset, y_offset, rect) ==
    LET current_size == Max(MinSize, size_var)
        base_x == 2 * rect.x_left + rect.rect_width
        base_y == 2 * rect.y_bottom + (rect.rect_height - current_size)
    IN [font |-> font,
        size |-> current_size,
        x    |-> base_x + 2 * x_offset,
        y    |-> base_y + 2 * y_offset]

\* Variant: the anchor is clamped to the lower left corner of the rectangle.
compute_positions_clamped(name_text, font, size_var, x_offset, y_offset, rect) ==
    LET current_size == Max(MinSize, size_var)
        text_width == stringWidth(name_text, font, current_size)
        base_x == 2 * rect.x_left + (rect.rect_width - text_width)
        base_y == 2 * rect.y_bottom + (rect.rect_height - current_size)
    IN [font |-> font,
        size |-> current_size,
        x    |-> Max(2 * rect.x_left, base_x + 2 * x_offset),
        y    |-> Max(2 * rect.y_bottom, base_y + 2 * y_offset)]

\* compute_positions of the review dialog.  x and y are in half units.
compute_positions(name_text, font, size_var, x_offset, y_offset, rect) ==
    LET current_size == Max(MinSize, size_var)
        text_width == stringWidth(name_text, font, current_size)
        base_x == 2 * rect.x_left + (rect.rect_width - text_width)
        base_y == 2 * rect.y_bottom + (rect.rect_height - current_size)
    IN [font |-> font,
        size |-> current_size,
        x    |-> base_x + 2 * x_offset,
        y    |-> base_y + 2 * y_offset]

\* Variant: the text starts at the centre of the rectangle.
auto_position_centre_start(name, font, font_size, rect) ==
    [x |-> 2 * rect.x_left + rect.rect_width,
     y |-> 2 * rect.y_bottom + (rect.rect_height - font_size)]

\* x_text, y_text of the loop body of start_generation (half units).
auto_position(name, font, font_size, rect) ==
    LET text_width == stringWidth(name, font, font_size)
    IN [x |-> 2 * rect.x_left + (rect.rect_width - text_width),
        y |-> 2 * rect.y_bottom + (rect.rect_height - font_size)]

-----------------------------------------------------------------------------
(* Status texts.  A status is a record so that its parameters stay visible. *)

Status(text) == [text |-> text, k |-> 0, n |-> 0, name |-> << >>, missing |-> << >>]

AreaStatus(text) == [text |-> text, w |-> 0, h |-> 0]

\* update_ready_state: the start button and the progress text it sets.
missing_list(p, n, r, o) ==
    (IF p = "" THEN <<"template PDF">> ELSE << >>)
    \o (IF n = << >> THEN <<"names file">> ELSE << >>)
    \o (IF r = NoRect THEN <<"placement area">> ELSE << >>)
    \o (IF app = "auto" /\ o = "" THEN <<"output folder">> ELSE << >>)

update_ready_state(p, n, r, o) ==
    LET ready == p # "" /\ n # << >> /\ r # NoRect /\ (app = "auto" => o # "")
    IN IF ready
       THEN [button |-> "normal",
             status |-> Status(IF app = "auto" THEN "Ready to generate automatically"
                                               ELSE "Ready to review and export")]
       ELSE [button |-> "disabled",
             status |-> [Status("Waiting: select") EXCEPT !.missing = missing_list(p, n, r, o)]]

\* Variables of a running generation loop.
run_vars == <<pc, idx, last_font, initial_size, written, cert>>

-----------------------------------------------------------------------------
(* Initial state: the constructors of the two apps, the top of the script.  *)

AppInit(which) ==
    /\ app \in which
    /\ pdf_path = ""
    /\ pix = NoPix
    /\ img = ""
    /\ names = << >>
    /\ rect_info = NoRect
    /\ selected_font = FirstFont
    /\ output_dir = IF app = "auto" THEN "output" ELSE ""
    /\ area_status = AreaStatus("Area not selected")
    /\ progress_status = Status("Waiting to start")
    /\ progress_value = 0
    /\ start_button = "disabled"
    /\ last_font_size = 0
    /\ pc = CASE app = "script" -> "select_files"
              [] app = "calc"   -> "calc"
              [] OTHER          -> "idle"
    /\ idx = 0
    /\ last_font = ""
    /\ initial_size = 0
    /\ written = << >>
    /\ cert = NoCert
    /\ args = NoArgs
    /\ raised = NoRaise
    /\ lines = << >>
    /\ names_sorted = << >>
    /\ theme_name = "dark"
    /\ search_size = 0
    /\ measured = << >>

Init == AppInit({"auto", "review", "script"})

IsApp == app \in {"auto", "review"} /\ pc = "idle"

-----------------------------------------------------------------------------
(* Handlers of the two apps *)

\* load_pdf_preview: the step at which it fails, or "ok".
LoadOutcomes == {"open_fails", "page_fails", "pixmap_fails", "image_fails", "ok"}

PixOf(path) == [tpl |-> path, height |-> PageHeight(path)]

\* pix after load_pdf_preview(path): assigned once get_pixmap has returned.
load_pdf_preview_pix(path, outcome) ==
    IF outcome \in {"image_fails", "ok"} THEN PixOf(path) ELSE pix

\* img after load_pdf_preview(path): assigned last.
load_pdf_preview_img(path, outcome) ==
    IF outcome = "ok" THEN path ELSE img

choose_pdf ==
    /\ IsApp
    /\ \E path \in Templates \cup {""} :
        \E outcome \in (IF path = "" THEN {"ok"} ELSE LoadOutcomes) :
        IF path = ""
        THEN UNCHANGED vars
        ELSE /\ pix' = load_pdf_preview_pix(path, outcome)
             /\ img' = load_pdf_preview_img(path, outcome)
             /\ IF outcome # "ok"
                THEN UNCHANGED <<pdf_path, area_status, rect_info, start_button,
                                 progress_status>>
                ELSE /\ pdf_path' = path
                     /\ area_status' = AreaStatus("Area not selected")
                     /\ rect_info' = NoRect
                     /\ LET u == update_ready_state(path, names, NoRect, output_dir)
                        IN /\ start_button' = u.button
                           /\ progress_status' = u.status
             /\ UNCHANGED <<theme_name, clean_vars, search_vars, args, raised, app, names, selected_font, output_dir, progress_value,
                            last_font_size, run_vars>>

choose_names ==
    /\ IsApp
    /\ \E cancelled \in BOOLEAN :
        \E loaded \in (IF cancelled THEN {<< >>} ELSE NameLists) :
        IF cancelled \/ loaded = << >>
        THEN UNCHANGED vars
        ELSE /\ names' = loaded
             /\ LET u == update_ready_state(pdf_path, loaded, rect_info, output_dir)
                IN /\ start_button' = u.button
                   /\ progress_status' = u.status
             /\ UNCHANGED <<theme_name, clean_vars, search_vars, args, raised, app, pdf_path, pix, img, rect_info, selected_font, output_dir,
                            area_status, progress_value, last_font_size, run_vars>>

OutputDirs == {"out"}

choose_output_dir ==
    /\ IsApp
    /\ app = "auto"
    /\ \E path \in OutputDirs \cup {""} :
        IF path = ""
        THEN UNCHANGED vars
        ELSE /\ output_dir' = path
             /\ LET u == update_ready_state(pdf_path, names, rect_info, path)
                IN /\ start_button' = u.button
                   /\ progress_status' = u.status
             /\ UNCHANGED <<theme_name, clean_vars, search_vars, args, raised, app, pdf_path, pix, img, names, rect_info, selected_font,
                            area_status, progress_value, last_font_size, run_vars>>

\* toggle_theme as it would be if rebuild_ui left the rebuilt button as
\* build_steps_panel creates it.
toggle_theme_as_built ==
    /\ IsApp
    /\ app = "auto"
    /\ theme_name' = (IF theme_name = "dark" THEN "light" ELSE "dark")
    /\ progress_value' = 0
    /\ start_button' = "disabled"
    /\ progress_status' = update_ready_state(pdf_path, names, rect_info, output_dir).status
    /\ UNCHANGED <<clean_vars, search_vars, args, raised, app, pdf_path, pix, img, names, rect_info,
                   selected_font, output_dir, area_status, last_font_size, run_vars>>

\* toggle_theme: rebuild_ui destroys the widgets, build_layout creates a new
\* progress bar (value 0) and a new, disabled start button, and
\* update_ready_state then sets the button and the progress text.
toggle_theme ==
    /\ IsApp
    /\ app = "auto"
    /\ theme_name' = (IF theme_name = "dark" THEN "light" ELSE "dark")
    /\ progress_value' = 0
    /\ LET u == update_ready_state(pdf_path, names, rect_info, output_dir)
       IN /\ start_button' = u.button
          /\ progress_status' = u.status
    /\ UNCHANGED <<clean_vars, search_vars, args, raised, app, pdf_path, pix, img, names, rect_info,
                   selected_font, output_dir, area_status, last_font_size, run_vars>>

\* The font combobox writes selected_font.
choose_font ==
    /\ IsApp
    /\ \E f \in Fonts : selected_font' = f
    /\ UNCHANGED <<theme_name, clean_vars, search_vars, args, raised, app, pdf_path, pix, img, names, rect_info, output_dir, area_status,
                   progress_status, progress_value, start_button, last_font_size, run_vars>>

\* What show_rectangle_selection returns: two corners, or (None, None).
NoSelection == << >>
\* The drags sampled: a click without a move, both diagonals, a horizontal and a
\* vertical drag.
Drags ==
    { << <<10, 6>>, <<10, 6>> >>,
      << <<10, 6>>, <<210, 46>> >>,
      << <<210, 46>>, <<10, 6>> >>,
      << <<10, 6>>, <<210, 6>> >>,
      << <<210, 46>>, <<210, 6>> >> }
Selections == {NoSelection} \cup (Drags \cap (Points \X Points))

select_area ==
    /\ IsApp
    /\ \E sel \in Selections :
        IF pix = NoPix \/ img = ""
        THEN UNCHANGED vars
        ELSE /\ IF sel = NoSelection
                THEN /\ area_status' = AreaStatus("Area not selected - draw a rectangle and confirm")
                     /\ UNCHANGED rect_info
                ELSE IF sel[1] = sel[2]
                THEN /\ area_status' = AreaStatus("Area not selected - rectangle has zero size")
                     /\ UNCHANGED rect_info
                ELSE LET r == calculate_rect(sel[1], sel[2], pix.height)
                     IN /\ rect_info' = r
                        /\ area_status' = [text |-> "Selected area", w |-> r.rect_width,
                                           h |-> r.rect_height]
             /\ LET u == update_ready_state(pdf_path, names, rect_info', output_dir)
                IN /\ start_button' = u.button
                   /\ progress_status' = u.status
             /\ UNCHANGED <<theme_name, clean_vars, search_vars, args, raised, app, pdf_path, pix, img, names, selected_font, output_dir,
                            progress_value, last_font_size, run_vars>>

-----------------------------------------------------------------------------
(* generate_certificate: the file it writes and the arguments it was given. *)

output_filename(name_text) ==
    IF app = "auto" THEN auto_output_filename(output_dir, name_text)
    ELSE review_output_filename(name_text)

generate_certificate(name_text, font_choice, font_size, pdf_x, pdf_y, dx, dy) ==
    /\ written' = Append(written, output_filename(name_text))
    /\ cert' = [name |-> name_text, font |-> font_choice, size |-> font_size,
                x |-> pdf_x, y |-> pdf_y, x_offset |-> dx, y_offset |-> dy,
                path |-> output_filename(name_text)]

-----------------------------------------------------------------------------
(* Auto mode: start_generation *)

\* Variant: the names list is not among the prerequisites tested.
start_generation_without_names_test ==
    /\ IsApp
    /\ app = "auto"
    /\ IF pdf_path = "" \/ rect_info = NoRect \/ output_dir = ""
       THEN UNCHANGED vars
       ELSE /\ progress_value' = 0
            /\ progress_status' = Status("Generating certificates")
            /\ pc' = "generating"
            /\ idx' = 1
            /\ written' = << >>
            /\ cert' = NoCert
            /\ UNCHANGED <<theme_name, clean_vars, search_vars, args, raised, app, pdf_path, pix, img, names, rect_info,
                           selected_font, output_dir, area_status, start_button,
                           last_font_size, last_font, initial_size>>

start_generation ==
    /\ IsApp
    /\ app = "auto"
    /\ IF pdf_path = "" \/ names = << >> \/ rect_info = NoRect \/ output_dir = ""
       THEN UNCHANGED vars
       ELSE /\ progress_value' = 0
            /\ progress_status' = Status("Generating certificates")
            /\ pc' = "generating"
            /\ idx' = 1
            /\ written' = << >>
            /\ cert' = NoCert
            /\ UNCHANGED <<theme_name, clean_vars, search_vars, args, raised, app, pdf_path, pix, img, names, rect_info, selected_font,
                           output_dir, area_status, start_button, last_font_size,
                           last_font, initial_size>>

\* Variant: the size of the previous certificate is carried to the next name,
\* as the review loop does.
generate_next_carrying ==
    /\ pc = "generating"
    /\ idx <= Len(names)
    /\ LET name == names[idx]
           font_size == IF cert # NoCert
                        THEN Max(MinSize, Min(rect_info.rect_height, cert.size))
                        ELSE calculate_initial_font_size(name, selected_font, rect_info)
           pos == auto_position(name, selected_font, font_size, rect_info)
       IN /\ generate_certificate(name, selected_font, font_size, pos.x, pos.y, 0, 0)
          /\ progress_status' = [Status("Saved") EXCEPT !.k = idx, !.n = Len(names),
                                                        !.name = name]
    /\ progress_value' = idx
    /\ idx' = idx + 1
    /\ UNCHANGED <<theme_name, clean_vars, search_vars, args, raised, app, pdf_path, pix, img, names, rect_info, selected_font,
                   output_dir, area_status, start_button, last_font_size, pc, last_font,
                   initial_size>>

\* Variant: the loop counts from 0.
generate_next_from_zero ==
    /\ pc = "generating"
    /\ idx <= Len(names)
    /\ LET name == names[idx]
           font_size == calculate_initial_font_size(name, selected_font, rect_info)
           pos == auto_position(name, selected_font, font_size, rect_info)
       IN /\ generate_certificate(name, selected_font, font_size, pos.x, pos.y, 0, 0)
          /\ progress_status' = [Status("Saved") EXCEPT !.k = idx - 1, !.n = Len(names),
                                                        !.name = name]
    /\ progress_value' = idx - 1
    /\ idx' = idx + 1
    /\ UNCHANGED <<theme_name, clean_vars, search_vars, args, raised, app, pdf_path, pix, img, names, rect_info, selected_font,
                   output_dir, area_status, start_button, last_font_size, pc, last_font,
                   initial_size>>

\* One iteration of the for loop, up to update_idletasks().
generate_next ==
    /\ pc = "generating"
    /\ idx <= Len(names)
    /\ LET name == names[idx]
           font_size == calculate_initial_font_size(name, selected_font, rect_info)
           pos == auto_position(name, selected_font, font_size, rect_info)
       IN /\ generate_certificate(name, selected_font, font_size, pos.x, pos.y, 0, 0)
          /\ progress_status' = [Status("Saved") EXCEPT !.k = idx, !.n = Len(names),
                                                        !.name = name]
    /\ progress_value' = idx
    /\ idx' = idx + 1
    /\ UNCHANGED <<theme_name, clean_vars, search_vars, args, raised, app, pdf_path, pix, img, names, rect_info, selected_font, output_dir,
                   area_status, start_button, last_font_size, pc, last_font, initial_size>>

\* The code after the loop.
finish_generation ==
    /\ pc = "generating"
    /\ idx > Len(names)
    /\ progress_status' = Status("All certificates generated automatically!")
    /\ pc' = "done"
    /\ UNCHANGED <<theme_name, clean_vars, search_vars, args, raised, app, pdf_path, pix, img, names, rect_info, selected_font, output_dir,
                   area_status, progress_value, start_button, last_font_size, idx,
                   last_font, initial_size, written, cert>>

\* The first size at which the loop body measures a name: the starting size of
\* the search, or 5 (the centering) when the search has no size to try.  The
\* last one is the size the search returns.
first_measured_size(rect) ==
    LET m == Min(rect.rect_height, MaxCandidate)
        max_size == IF m = 0 THEN MinSize ELSE m
    IN Max(MinSize, max_size)

\* Variant: the failure is caught and the loop goes on with the next name.
measure_raises_caught ==
    /\ app = "auto"
    /\ pc = "generating"
    /\ idx <= Len(names)
    /\ \E size \in {first_measured_size(rect_info),
                    calculate_initial_font_size(names[idx], selected_font, rect_info)} :
        raised' = [k |-> idx, name |-> names[idx], font |-> selected_font, size |-> size]
    /\ idx' = idx + 1
    /\ UNCHANGED <<theme_name, clean_vars, search_vars, args, app, pdf_path, pix, img, names, rect_info, selected_font, output_dir,
                   area_status, progress_status, progress_value, start_button,
                   last_font_size, pc, last_font, initial_size, written, cert>>

\* stringWidth raises while the loop body works on names[idx]: nothing catches
\* it, the exception leaves start_generation.
measure_raises ==
    /\ app = "auto"
    /\ pc = "generating"
    /\ idx <= Len(names)
    /\ \E size \in {first_measured_size(rect_info),
                    calculate_initial_font_size(names[idx], selected_font, rect_info)} :
        raised' = [k |-> idx, name |-> names[idx], font |-> selected_font, size |-> size]
    /\ pc' = "done"
    /\ UNCHANGED <<theme_name, clean_vars, search_vars, args, app, pdf_path, pix, img, names, rect_info, selected_font, output_dir,
                   area_status, progress_status, progress_value, start_button,
                   last_font_size, idx, last_font, initial_size, written, cert>>

\* The handler returns to the Tk main loop: its locals are gone.
handler_return ==
    /\ app \in {"auto", "review"}
    /\ pc = "done"
    /\ pc' = "idle"
    /\ idx' = 0
    /\ last_font' = ""
    /\ initial_size' = 0
    /\ written' = << >>
    /\ cert' = NoCert
    /\ raised' = NoRaise
    /\ UNCHANGED <<theme_name, clean_vars, search_vars, args, app, pdf_path, pix, img, names, rect_info, selected_font, output_dir,
                   area_status, progress_status, progress_value, start_button,
                   last_font_size>>

-----------------------------------------------------------------------------
(* Review mode: start_review / the script's generation loop, review_name *)

\* initial_size of the loop body for `name`.
review_initial_size(name, font, rect, last_size) ==
    IF last_size # 0
    THEN Max(MinSize, Min(rect.rect_height, last_size))
    ELSE calculate_initial_font_size(name, font, rect)

\* Variant: the carried size of the previous run is not reset.
start_review_without_reset ==
    /\ IsApp
    /\ app = "review"
    /\ IF pdf_path = "" \/ names = << >> \/ rect_info = NoRect
       THEN UNCHANGED vars
       ELSE /\ last_font' = selected_font
            /\ idx' = 1
            /\ initial_size' = review_initial_size(names[1], selected_font, rect_info,
                                                   last_font_size)
            /\ pc' = "reviewing"
            /\ written' = << >>
            /\ cert' = NoCert
            /\ UNCHANGED <<theme_name, clean_vars, search_vars, args, raised, app, pdf_path, pix, img, names, rect_info,
                           selected_font, output_dir, area_status, progress_status,
                           progress_value, start_button, last_font_size>>

start_review ==
    /\ IsApp
    /\ app = "review"
    /\ IF pdf_path = "" \/ names = << >> \/ rect_info = NoRect
       THEN UNCHANGED vars
       ELSE /\ last_font' = selected_font
            /\ last_font_size' = 0
            /\ idx' = 1
            /\ initial_size' = review_initial_size(names[1], selected_font, rect_info, 0)
            /\ pc' = "reviewing"
            /\ written' = << >>
            /\ cert' = NoCert
            /\ UNCHANGED <<theme_name, clean_vars, search_vars, args, raised, app, pdf_path, pix, img, names, rect_info, selected_font,
                           output_dir, area_status, progress_status, progress_value,
                           start_button>>

\* The size slider of the dialog: from 5 to size_scale_max.
size_scale_max(default_size, rect) ==
    Max(Max(rect.rect_height, default_size + ScaleHeadroom), MinScaleMax)

SizeChoices(default_size, rect) ==
    {Max(MinSize, default_size), size_scale_max(default_size, rect)}

\* The offset sliders: from -limit to +limit, resolution 1.
x_offset_limit(rect) == Max(MinOffsetLimit, rect.rect_width \div 2)
y_offset_limit(rect) == Max(MinOffsetLimit, rect.rect_height \div 2)

OffsetChoices(rect) ==
    { <<0, 0>>, <<0 - x_offset_limit(rect), y_offset_limit(rect)>> }

\* "Save & Next": on_next, then the rest of the loop body and the head of the
\* next iteration (or the loop's else branch).
on_next ==
    /\ pc = "reviewing"
    /\ \E font \in Fonts, size_var \in SizeChoices(initial_size, rect_info),
          off \in OffsetChoices(rect_info) :
        LET name == names[idx]
            result == compute_positions(name, font, size_var, off[1], off[2], rect_info)
        IN /\ last_font' = result.font
           /\ last_font_size' = result.size
           /\ generate_certificate(name, result.font, result.size, result.x, result.y,
                                   off[1], off[2])
           /\ IF idx < Len(names)
              THEN /\ idx' = idx + 1
                   /\ initial_size' = review_initial_size(names[idx + 1], result.font,
                                                          rect_info, result.size)
                   /\ progress_status' = [Status("Saved certificate for") EXCEPT !.name = name]
                   /\ pc' = "reviewing"
              ELSE /\ UNCHANGED <<idx, initial_size>>
                   /\ progress_status' = Status("All certificates generated with manual review!")
                   /\ pc' = "done"
    /\ UNCHANGED <<theme_name, clean_vars, search_vars, args, raised, app, pdf_path, pix, img, names, rect_info, selected_font, output_dir,
                   area_status, progress_value, start_button>>

\* Variant: a cancelled review skips its name and the loop goes on.
on_cancel_skipping ==
    /\ pc = "reviewing"
    /\ progress_status' = Status("Certificate generation cancelled by user.")
    /\ IF idx < Len(names)
       THEN /\ idx' = idx + 1
            /\ initial_size' = review_initial_size(names[idx + 1], last_font, rect_info,
                                                   last_font_size)
            /\ pc' = "reviewing"
       ELSE /\ pc' = "done"
            /\ UNCHANGED <<idx, initial_size>>
    /\ UNCHANGED <<theme_name, clean_vars, search_vars, args, raised, app, pdf_path, pix, img, names, rect_info, selected_font,
                   output_dir, area_status, progress_value, start_button, last_font_size,
                   last_font, written, cert>>

\* Cancel / Escape / closing the dialog: review_name returns None, the loop breaks.
on_cancel ==
    /\ pc = "reviewing"
    /\ progress_status' = Status("Certificate generation cancelled by user.")
    /\ pc' = "done"
    /\ UNCHANGED <<theme_name, clean_vars, search_vars, args, raised, app, pdf_path, pix, img, names, rect_info, selected_font, output_dir,
                   area_status, progress_value, start_button, last_font_size, idx,
                   last_font, initial_size, written, cert>>

-----------------------------------------------------------------------------
(* The module-level script *)

\* The two file dialogs, the names file, the fonts and the page render.
script_select_files ==
    /\ app = "script"
    /\ pc = "select_files"
    /\ \E path \in Templates, loaded \in NameLists :
        /\ pdf_path' = path
        /\ names' = loaded
        /\ pix' = PixOf(path)
        /\ img' = path
    /\ pc' = "draw"
    /\ UNCHANGED <<theme_name, clean_vars, search_vars, args, raised, app, rect_info, selected_font, output_dir, area_status,
                   progress_status, progress_value, start_button, last_font_size, idx,
                   last_font, initial_size, written, cert>>

\* The rectangle window is closed: exit without a rectangle, or conversion and
\* the head of the generation loop.
script_draw_rectangle ==
    /\ app = "script"
    /\ pc = "draw"
    /\ \E sel \in Selections :
        IF sel = NoSelection
        THEN /\ pc' = "exit"
             /\ progress_status' = Status("No rectangle drawn. Exiting.")
             /\ UNCHANGED <<rect_info, last_font, initial_size, idx>>
        ELSE LET r == calculate_rect(sel[1], sel[2], pix.height)
             IN /\ rect_info' = r
                /\ last_font' = selected_font
                /\ IF names = << >>
                   THEN /\ pc' = "done"
                        /\ progress_status' = Status("All certificates generated with manual review!")
                        /\ UNCHANGED <<initial_size, idx>>
                   ELSE /\ pc' = "reviewing"
                        /\ idx' = 1
                        /\ initial_size' = review_initial_size(names[1], selected_font, r, 0)
                        /\ UNCHANGED progress_status
    /\ UNCHANGED <<theme_name, clean_vars, search_vars, args, raised, app, pdf_path, pix, img, names, selected_font, output_dir, area_status,
                   progress_value, start_button, last_font_size, written, cert>>

-----------------------------------------------------------------------------

Next ==
    \/ choose_pdf
    \/ choose_names
    \/ choose_output_dir
    \/ choose_font
    \/ toggle_theme
    \/ select_area
    \/ start_generation
    \/ generate_next
    \/ finish_generation
    \/ measure_raises
    \/ handler_return
    \/ start_review
    \/ on_next
    \/ on_cancel
    \/ script_select_files
    \/ script_draw_rectangle

Spec == Init /\ [][Next]_vars

-----------------------------------------------------------------------------
(* The calculator on its own: a rectangle is converted from two corners of  *)
(* the grid and a page height, then the size search or the placement is     *)
(* applied to it, with the names, the measured fonts and the values the     *)
(* sliders of the review dialog can take.                                   *)

\* The calculator is called on an object that has a template, names, a
\* rectangle and a carried size from earlier use.
InitCalc ==
    /\ app = "calc"
    /\ pdf_path = "t1.pdf"
    /\ pix = PixOf("t1.pdf")
    /\ img = "t1.pdf"
    /\ names = << <<"a", "_", "b">>, <<"a", ":", "b">> >>
    /\ rect_info = calculate_rect(<<10, 6>>, <<210, 46>>, PageHeight("t1.pdf"))
    /\ selected_font = "Wavy"
    /\ output_dir = ""
    /\ area_status = [text |-> "Selected area", w |-> rect_info.rect_width,
                      h |-> rect_info.rect_height]
    /\ progress_status = Status("All certificates generated with manual review!")
    /\ progress_value = 0
    /\ start_button = "normal"
    /\ last_font_size = 20
    /\ pc = "calc"
    /\ idx = 0
    /\ last_font = ""
    /\ initial_size = 0
    /\ written = << >>
    /\ cert = NoCert
    /\ args = NoArgs
    /\ raised = NoRaise
    /\ lines = << >>
    /\ names_sorted = << >>
    /\ theme_name = "dark"
    /\ search_size = 0
    /\ measured = << >>

\* Sizes the size slider can deliver (it runs from 5 to at least 45).
CalcSizes == {5, 16, 20, 45}

\* Offsets the offset sliders can deliver for `rect`.
CalcOffsets(rect) ==
    { <<0, 0>>, <<1, 0>>,
      <<0 - x_offset_limit(rect), y_offset_limit(rect)>>,
      <<x_offset_limit(rect), 0 - y_offset_limit(rect)>> }

calc_frame == <<theme_name, clean_vars, search_vars, raised, app, pdf_path, pix, img, names, selected_font, output_dir, area_status,
                progress_status, progress_value, start_button, last_font_size, pc, idx,
                last_font, written>>

calc_rect ==
    /\ app = "calc"
    /\ args.op = ""
    /\ \E rect_start \in CalcPoints, rect_end \in CalcPoints, pix_height \in CalcHeights :
        /\ rect_info' = calculate_rect(rect_start, rect_end, pix_height)
        /\ args' = [NoArgs EXCEPT !.op = "calculate_rect", !.rect_start = rect_start,
                                  !.rect_end = rect_end, !.pix_height = pix_height]
    /\ initial_size' = 0
    /\ cert' = NoCert
    /\ UNCHANGED calc_frame

\* Variant: the size found is also kept as the carried size.
calc_font_size_carrying ==
    /\ app = "calc"
    /\ args.op = "calculate_rect"
    /\ \E text \in NameSet, font \in MeasuredFonts :
        /\ initial_size' = calculate_initial_font_size(text, font, rect_info)
        /\ last_font_size' = calculate_initial_font_size(text, font, rect_info)
        /\ args' = [NoArgs EXCEPT !.op = "calculate_initial_font_size", !.text = text,
                                  !.font = font]
    /\ cert' = NoCert
    /\ UNCHANGED <<theme_name, clean_vars, search_vars, rect_info, raised, app, pdf_path, pix, img, names, selected_font,
                   output_dir, area_status, progress_status, progress_value, start_button,
                   pc, idx, last_font, written>>

calc_font_size ==
    /\ app = "calc"
    /\ args.op = "calculate_rect"
    /\ \E text \in NameSet, font \in MeasuredFonts :
        /\ initial_size' = calculate_initial_font_size(text, font, rect_info)
        /\ args' = [NoArgs EXCEPT !.op = "calculate_initial_font_size", !.text = text,
                                  !.font = font]
    /\ cert' = NoCert
    /\ UNCHANGED <<rect_info, calc_frame>>

\* The placement of the loop body of start_generation for the size just found.
calc_auto_position ==
    /\ app = "calc"
    /\ args.op = "calculate_initial_font_size"
    /\ LET pos == auto_position(args.text, args.font, initial_size, rect_info)
       IN cert' = [name |-> args.text, font |-> args.font, size |-> initial_size,
                   x |-> pos.x, y |-> pos.y, x_offset |-> 0, y_offset |-> 0,
                   path |-> << >>]
    /\ args' = [args EXCEPT !.op = "auto_position", !.size = initial_size]
    /\ UNCHANGED <<rect_info, initial_size, calc_frame>>

calc_positions ==
    /\ app = "calc"
    /\ args.op = "calculate_rect"
    /\ \E text \in NameSet, font \in MeasuredFonts, size_var \in CalcSizes,
          off \in CalcOffsets(rect_info) :
        LET result == compute_positions(text, font, size_var, off[1], off[2], rect_info)
        IN /\ cert' = [name |-> text, font |-> result.font, size |-> result.size,
                       x |-> result.x, y |-> result.y, x_offset |-> off[1],
                       y_offset |-> off[2], path |-> << >>]
           /\ args' = [NoArgs EXCEPT !.op = "compute_positions", !.text = text,
                                     !.font = font, !.size = size_var,
                                     !.x_offset = off[1], !.y_offset = off[2]]
    /\ initial_size' = 0
    /\ UNCHANGED <<rect_info, calc_frame>>

NextCalc ==
    \/ calc_rect
    \/ calc_font_size
    \/ calc_auto_position
    \/ calc_positions

SpecCalc == InitCalc /\ [][NextCalc]_vars

-----------------------------------------------------------------------------
(* clean_participant_names: the lines of the input file are stripped, cut   *)
(* after the first ". " and written sorted by length.  The script shares    *)
(* names, idx, pc and written (the lines of the output file) with the other *)
(* programs of the module.                                                  *)

\* Lines of an input file, without their line end.
InputLines ==
    { <<"1", ".", " ", "b", "a">>,
      <<" ", "2", ".", " ", "a", " ">>,
      <<"a", "b">>,
      <<" ">>,
      <<"D", ".", " ", "a">>,
      <<"1", ".", "a">> }

InputFiles == SeqsUpTo(InputLines, MaxLines)

\* str.strip() on the whitespace of the modelled lines.
RECURSIVE lstrip(_)
lstrip(s) == IF s # << >> /\ Head(s) = " " THEN lstrip(Tail(s)) ELSE s

RECURSIVE rstrip(_)
rstrip(s) ==
    IF s # << >> /\ s[Len(s)] = " " THEN rstrip(SubSeq(s, 1, Len(s) - 1)) ELSE s

strip(s) == rstrip(lstrip(s))

\* Position of the first ". " in s, 0 when there is none.
find_dot_space(s) ==
    LET hits == { i \in 1 .. Len(s) - 1 : s[i] = "." /\ s[i + 1] = " " }
    IN IF hits = {} THEN 0 ELSE CHOOSE i \in hits : \A j \in hits : i <= j

\* name.split('. ', 1) and the choice of parts[1].
split_name(name) ==
    LET i == find_dot_space(name)
    IN IF i # 0 THEN SubSeq(name, i + 2, Len(name)) ELSE name

\* Variant: an element goes before those of its own length.
insert_by_len_before_equal(sorted, x) ==
    LET k == Cardinality({ i \in 1 .. Len(sorted) : Len(sorted[i]) < Len(x) })
    IN SubSeq(sorted, 1, k) \o <<x>> \o SubSeq(sorted, k + 1, Len(sorted))

\* sorted(names, key=len): a stable sort, as an insertion after the elements
\* that are not longer.
insert_by_len(sorted, x) ==
    LET k == Cardinality({ i \in 1 .. Len(sorted) : Len(sorted[i]) <= Len(x) })
    IN SubSeq(sorted, 1, k) \o <<x>> \o SubSeq(sorted, k + 1, Len(sorted))

RECURSIVE sorted_by_len(_)
sorted_by_len(s) ==
    IF s = << >> THEN << >>
    ELSE insert_by_len(sorted_by_len(SubSeq(s, 1, Len(s) - 1)), s[Len(s)])

InitClean ==
    /\ app = "clean"
    /\ lines \in InputFiles
    /\ names = << >>
    /\ names_sorted = << >>
    /\ theme_name = "dark"
    /\ search_size = 0
    /\ measured = << >>
    /\ written = << >>
    /\ idx = 1
    /\ pc = "read"
    /\ progress_status = Status("")
    /\ pdf_path = ""
    /\ pix = NoPix
    /\ img = ""
    /\ rect_info = NoRect
    /\ selected_font = ""
    /\ output_dir = ""
    /\ area_status = AreaStatus("")
    /\ progress_value = 0
    /\ start_button = ""
    /\ last_font_size = 0
    /\ last_font = ""
    /\ initial_size = 0
    /\ cert = NoCert
    /\ args = NoArgs
    /\ raised = NoRaise

clean_frame == <<theme_name, search_vars, app, lines, pdf_path, pix, img, rect_info, selected_font, output_dir,
                 area_status, progress_value, start_button, last_font_size, last_font,
                 initial_size, cert, args, raised>>

\* One iteration of the cleaning loop.
clean_line ==
    /\ app = "clean"
    /\ pc = "read"
    /\ idx <= Len(lines)
    /\ LET name == strip(lines[idx])
       IN names' = IF name # << >> THEN Append(names, split_name(name)) ELSE names
    /\ idx' = idx + 1
    /\ UNCHANGED <<pc, names_sorted, written, progress_status, clean_frame>>

\* names_sorted = sorted(names, key=len)
sort_names ==
    /\ app = "clean"
    /\ pc = "read"
    /\ idx > Len(lines)
    /\ names_sorted' = sorted_by_len(names)
    /\ pc' = "write"
    /\ UNCHANGED <<idx, names, written, progress_status, clean_frame>>

\* The output file is written, one name per line, and the message printed.
write_output ==
    /\ app = "clean"
    /\ pc = "write"
    /\ written' = names_sorted
    /\ progress_status' = Status("Cleaned and sorted names saved to")
    /\ pc' = "done"
    /\ UNCHANGED <<idx, names, names_sorted, clean_frame>>

NextClean ==
    \/ clean_line
    \/ sort_names
    \/ write_output

SpecClean == InitClean /\ [][NextClean]_vars

-----------------------------------------------------------------------------
(* calculate_initial_font_size, one loop iteration at a time, with the      *)
(* sizes at which stringWidth is called.                                    *)

\* Corners of the rectangles searched: heights 0, 3, 6, 46 and 140, widths 0,
\* 10 and 210.
SearchCorners == {0, 10, 210} \X {0, 3, 6, 46, 140}

\* max_size = int(min(rect_height, 120)) or 5
search_start(rect) ==
    LET m == Min(rect.rect_height, MaxCandidate)
    IN IF m = 0 THEN MinSize ELSE m

InitSearch ==
    /\ app = "search"
    /\ pdf_path = "t1.pdf"
    /\ pix = PixOf("t1.pdf")
    /\ img = "t1.pdf"
    /\ names = << >>
    /\ \E corner \in SearchCorners :
          rect_info = calculate_rect(<<0, 0>>, corner, PageHeight("t1.pdf"))
    /\ \E text \in NameSet, font \in MeasuredFonts :
          args = [NoArgs EXCEPT !.op = "calculate_initial_font_size", !.text = text,
                                !.font = font]
    /\ selected_font = args.font
    /\ output_dir = ""
    /\ area_status = [text |-> "Selected area", w |-> rect_info.rect_width,
                      h |-> rect_info.rect_height]
    /\ progress_status = Status("")
    /\ progress_value = 0
    /\ start_button = "disabled"
    /\ last_font_size = 0
    /\ pc = "enter"
    /\ idx = 0
    /\ last_font = ""
    /\ initial_size = 0
    /\ written = << >>
    /\ cert = NoCert
    /\ raised = NoRaise
    /\ lines = << >>
    /\ names_sorted = << >>
    /\ theme_name = "dark"
    /\ search_size = 0
    /\ measured = << >>

search_frame == <<app, pdf_path, pix, img, names, rect_info, selected_font, output_dir,
                  area_status, progress_status, progress_value, start_button,
                  last_font_size, idx, last_font, written, cert, args, raised,
                  clean_vars, theme_name>>

\* max_size = ...; size = max_size
search_enter ==
    /\ app = "search"
    /\ pc = "enter"
    /\ search_size' = search_start(rect_info)
    /\ pc' = "loop"
    /\ UNCHANGED <<measured, initial_size, search_frame>>

\* Variant: the loop body without `size -= 1`.
search_iterate_without_decrement ==
    /\ app = "search"
    /\ pc = "loop"
    /\ search_size >= MinSize
    /\ measured' = Append(measured, search_size)
    /\ IF size_fits(args.text, args.font, rect_info, search_size)
       THEN /\ initial_size' = search_size
            /\ pc' = "returned"
       ELSE UNCHANGED <<initial_size, pc>>
    /\ UNCHANGED <<search_size, search_frame>>

\* One iteration of `while size >= 5`: stringWidth is called, then the size
\* is returned or decreased.
search_iterate ==
    /\ app = "search"
    /\ pc = "loop"
    /\ search_size >= MinSize
    /\ measured' = Append(measured, search_size)
    /\ IF size_fits(args.text, args.font, rect_info, search_size)
       THEN /\ initial_size' = search_size
            /\ pc' = "returned"
            /\ UNCHANGED search_size
       ELSE /\ search_size' = search_size - 1
            /\ UNCHANGED <<initial_size, pc>>
    /\ UNCHANGED search_frame

\* The loop condition fails: return 5.
search_exhausted ==
    /\ app = "search"
    /\ pc = "loop"
    /\ search_size < MinSize
    /\ initial_size' = MinSize
    /\ pc' = "returned"
    /\ UNCHANGED <<search_size, measured, search_frame>>

NextSearch ==
    \/ search_enter
    \/ search_iterate
    \/ search_exhausted

\* The function runs to its end once called: its loop has no blocking step.
SpecSearch == InitSearch /\ [][NextSearch]_vars /\ WF_vars(NextSearch)

-----------------------------------------------------------------------------
(* Properties.  Lengths are those of the rectangle in rect_info; x and y of *)
(* cert are in half units, so every equation on them is doubled.            *)

\* The sizes of [5, min(rect.height, 120)] at which the text is not wider than
\* the rectangle.
FittingSizes(text, font, rect) ==
    { s \in 5 .. Min(rect.rect_height, 120) : stringWidth(text, font, s) <= rect.rect_width }

LargestFit(text, font, rect) ==
    IF FittingSizes(text, font, rect) = {} THEN 5
    ELSE SetMax(FittingSizes(text, font, rect))

\* measure(text, font, .) is non-decreasing in the size.
NonDecreasing(text, font) ==
    \A s \in 5 .. 119 : stringWidth(text, font, s) <= stringWidth(text, font, s + 1)

SizeSearched == args.op = "calculate_initial_font_size"
RectConverted == args.op = "calculate_rect"
Placed == args.op \in {"compute_positions", "auto_position"}

\* C1: for a measure function that is non-decreasing in the size, the size
\* search returns the largest size of [5, min(rect.height, 120)] whose measured
\* width is at most rect.width, and 5 when there is none.
C1_AutoFitLargest ==
    (SizeSearched /\ NonDecreasing(args.text, args.font))
        => initial_size = LargestFit(args.text, args.font, rect_info)

\* A search that shrank: the result lies strictly between the floor and the start.
C1_Witness ==
    /\ SizeSearched
    /\ NonDecreasing(args.text, args.font)
    /\ initial_size > 5
    /\ initial_size < Min(rect_info.rect_height, 120)
    /\ initial_size \in FittingSizes(args.text, args.font, rect_info)

\* C2: for a rectangle of width 200 and height 40 and measure = 10 * size the
\* search returns 20: a width equal to the rectangle's is accepted.
LinearTen(text, font) == \A s \in 5 .. 40 : stringWidth(text, font, s) = 10 * s

C2_BoundaryInclusive ==
    (/\ SizeSearched
     /\ rect_info.rect_width = 200
     /\ rect_info.rect_height = 40
     /\ LinearTen(args.text, args.font))
        => initial_size = 20

C2_Witness ==
    /\ SizeSearched
    /\ rect_info.rect_width = 200
    /\ rect_info.rect_height = 40
    /\ LinearTen(args.text, args.font)
    /\ initial_size = 20
    /\ stringWidth(args.text, args.font, initial_size) = rect_info.rect_width

\* C3: for every rectangle and text the search returns a size s with
\* 5 <= s <= max(5, min(rect.height, 120)); a rectangle of width 0 with a text
\* of positive measured width yields 5.
PositiveWidth(text, font) == \A s \in 5 .. 120 : stringWidth(text, font, s) > 0

C3_AutoFitDegrades ==
    SizeSearched =>
        /\ initial_size \in 5 .. Max(5, Min(rect_info.rect_height, 120))
        /\ (rect_info.rect_width = 0 /\ PositiveWidth(args.text, args.font))
              => initial_size = 5

\* A zero-width rectangle tall enough for the search to run over many sizes.
C3_Witness ==
    /\ SizeSearched
    /\ rect_info.rect_width = 0
    /\ rect_info.rect_height > 120
    /\ PositiveWidth(args.text, args.font)
    /\ initial_size = 5

\* C4: the converted rectangle has width |x2 - x1|, height |y2 - y1|,
\* left min(x1, x2) and bottom H - max(y1, y2).
C4_RectConversion ==
    RectConverted =>
        LET x1 == args.rect_start[1]
            y1 == args.rect_start[2]
            x2 == args.rect_end[1]
            y2 == args.rect_end[2]
        IN /\ rect_info.rect_width = Abs(x2 - x1)
           /\ rect_info.rect_height = Abs(y2 - y1)
           /\ rect_info.x_left = Min(x1, x2)
           /\ rect_info.y_bottom = args.pix_height - Max(y1, y2)

\* A drag from the lower right to the upper left.
C4_Witness ==
    /\ RectConverted
    /\ args.rect_start[1] > args.rect_end[1]
    /\ args.rect_start[2] > args.rect_end[2]
    /\ rect_info.rect_width > 0
    /\ rect_info.rect_height > 0

\* C5: the anchor is x = left + (width - measure(text, font, size)) / 2 + x_offset
\* and y = bottom + (height - size) / 2 + y_offset, for the size and font asked
\* for; the auto mode computes the same with both offsets 0 and the size found.
C5_CenteredPlacement ==
    Placed =>
        LET text_width == stringWidth(cert.name, cert.font, cert.size)
        IN /\ cert.name = args.text /\ cert.font = args.font /\ cert.size = args.size
           /\ cert.x_offset = args.x_offset /\ cert.y_offset = args.y_offset
           /\ cert.x - 2 * rect_info.x_left - 2 * cert.x_offset
                 = rect_info.rect_width - text_width
           /\ cert.y - 2 * rect_info.y_bottom - 2 * cert.y_offset
                 = rect_info.rect_height - cert.size
           /\ args.op = "auto_position"
                 => /\ cert.x_offset = 0 /\ cert.y_offset = 0
                    /\ cert.size = initial_size

\* A placement with both offsets set whose anchor falls on a half unit.
C5_Witness ==
    /\ args.op = "compute_positions"
    /\ cert.x_offset # 0
    /\ cert.y_offset # 0
    /\ cert.x % 2 = 1
    /\ cert.y % 2 = 1

\* C6: a rectangle stored as the placement area has width > 0 and height > 0.
C6_NoZeroAreaRect ==
    rect_info # NoRect => (rect_info.rect_width > 0 /\ rect_info.rect_height > 0)

\* C7: a generation run that went through the whole names list has written as
\* many distinct files as the list has entries.
RunCompleted ==
    /\ pc = "done"
    /\ progress_status.text \in {"All certificates generated automatically!",
                                 "All certificates generated with manual review!"}

C7_OneFilePerName ==
    RunCompleted => Cardinality(Range(written)) = Len(names)

\* C8: with zero offsets, a text not wider than the rectangle lies between its
\* left and right edges.
C8_CenteringSymmetry ==
    LET text_width == stringWidth(cert.name, cert.font, cert.size)
    IN (/\ Placed
        /\ cert.x_offset = 0 /\ cert.y_offset = 0
        /\ text_width <= rect_info.rect_width)
          => /\ 2 * rect_info.x_left <= cert.x
             /\ cert.x + 2 * text_width <= 2 * (rect_info.x_left + rect_info.rect_width)

\* A text that fills more than half of the rectangle, but not all of it.
C8_Witness ==
    LET text_width == stringWidth(cert.name, cert.font, cert.size)
    IN /\ args.op = "compute_positions"
       /\ cert.x_offset = 0 /\ cert.y_offset = 0
       /\ text_width < rect_info.rect_width
       /\ 2 * text_width > rect_info.rect_width

\* C9: place(.., dx, dy) = place(.., 0, 0) + (dx, dy), also when the anchor
\* leaves the rectangle or the page.
C9_OffsetLinearity ==
    args.op = "compute_positions" =>
        LET zero == compute_positions(args.text, args.font, args.size, 0, 0, rect_info)
        IN /\ cert.x = zero.x + 2 * args.x_offset
           /\ cert.y = zero.y + 2 * args.y_offset

\* Offsets that push the anchor left of the page and below the rectangle.
C9_Witness ==
    /\ args.op = "compute_positions"
    /\ args.x_offset < 0
    /\ cert.x < 0
    /\ (cert.y < 2 * rect_info.y_bottom \/ cert.y > 2 * (rect_info.y_bottom + rect_info.rect_height))

\* C10: the conversion does not depend on the order of the two corners.
C10_OrderIndependent ==
    RectConverted =>
        rect_info = calculate_rect(args.rect_end, args.rect_start, args.pix_height)

\* Two corners that differ in both coordinates.
C10_Witness ==
    /\ RectConverted
    /\ args.rect_start[1] # args.rect_end[1]
    /\ args.rect_start[2] # args.rect_end[2]
    /\ rect_info.x_left = args.rect_end[1]

\* C11: for every W >= 0 and H >= 0, converting the corners (0,0) and (W,H) on a
\* page of height H yields left = 0, bottom = 0, width = W, height = H.
C11_PageBoundsRoundTrip ==
    (/\ RectConverted
     /\ args.rect_start = <<0, 0>>
     /\ args.rect_end[2] = args.pix_height)
        => /\ rect_info.x_left = 0
           /\ rect_info.y_bottom = 0
           /\ rect_info.rect_width = args.rect_end[1]
           /\ rect_info.rect_height = args.pix_height

\* The whole of a page of positive size.
C11_Witness ==
    /\ RectConverted
    /\ args.rect_start = <<0, 0>>
    /\ args.rect_end[1] > 0
    /\ args.rect_end[2] = args.pix_height
    /\ args.pix_height > 0
    /\ rect_info.rect_height = args.pix_height

\* C12: whatever the drag direction, the converted rectangle has width >= 0 and
\* height >= 0, and so has every rect_info stored by a selection.
C12_NonNegativeExtent ==
    rect_info # NoRect => (rect_info.rect_width >= 0 /\ rect_info.rect_height >= 0)

\* A selection accepted by select_area and stored.
C12_Witness ==
    /\ app \in {"auto", "review"}
    /\ rect_info # NoRect
    /\ rect_info.rect_width > 0
    /\ rect_info.rect_height > 0
    /\ area_status.text = "Selected area"
    /\ area_status.w = rect_info.rect_width

WrittenUpTo(k) ==
    /\ Len(written) = k
    /\ \A i \in 1 .. k : written[i] = output_filename(names[i])

\* C15: when the measurement raises while the k-th name is worked on, the
\* failure leaves the run: the failing size is not measured again, no
\* certificate is written for the k-th or a later name in that run, and the
\* certificates of the names 1..k-1 remain.
C15_MeasureFailurePropagates ==
    /\ [](raised # NoRaise =>
            /\ pc = "done"
            /\ WrittenUpTo(raised.k - 1)
            /\ progress_status.text # "All certificates generated automatically!")
    /\ [][/\ (raised = NoRaise /\ raised' # NoRaise)
                => (written' = written /\ cert' = cert /\ progress_value' = progress_value)
          /\ raised # NoRaise => (raised' = NoRaise /\ pc' = "idle")]_vars

\* The measurement raised at the second name, after the first was written.
C15_Witness ==
    /\ raised # NoRaise
    /\ raised.k = 2
    /\ Len(written) = 1
    /\ Len(names) = 2

\* C16: in auto mode the size and the anchor of a certificate depend only on
\* its name, the selected font and the rectangle: whatever the position of the
\* name in the list and whatever the other names, the size is the largest
\* fitting one for that name and the anchor centers that name at that size.
C16_BatchOrderIndependent ==
    (app = "auto" /\ cert # NoCert) =>
        /\ cert.font = selected_font
        /\ cert.size = LargestFit(cert.name, selected_font, rect_info)
        /\ cert.x = 2 * rect_info.x_left
                      + (rect_info.rect_width - stringWidth(cert.name, selected_font, cert.size))
        /\ cert.y = 2 * rect_info.y_bottom + (rect_info.rect_height - cert.size)

\* The second name of a list was placed at another size than the first.
C16_Witness ==
    /\ app = "auto"
    /\ cert # NoCert
    /\ Len(written) = 2
    /\ cert.name = names[2]
    /\ names[1] # names[2]
    /\ cert.size # LargestFit(names[1], selected_font, rect_info)

\* A template is loaded, the names list is not empty, a rectangle is set.
Prerequisites == pdf_path # "" /\ names # << >> /\ rect_info # NoRect

\* C17: no certificate is written unless a template is loaded, the names list
\* is not empty and a rectangle is set; with one of them missing
\* start_generation and start_review start no run and write nothing.
C17_GuardedByPrerequisites ==
    /\ [](written # << >> => Prerequisites)
    /\ [][/\ (pc = "idle" /\ pc' # "idle")
                => (Prerequisites /\ UNCHANGED <<pdf_path, names, rect_info>>)
          /\ written' # written
                => (Prerequisites /\ (written' = << >> \/ pc \in {"generating", "reviewing"}))
          /\ (pc = "idle" /\ ~Prerequisites) => written' = written]_vars

\* A run of one of the apps that has written a certificate.
C17_Witness ==
    /\ app \in {"auto", "review"}
    /\ pc \in {"generating", "reviewing"}
    /\ written # << >>
    /\ Prerequisites

ReviewMode == app \in {"review", "script"}
AllReviewed == "All certificates generated with manual review!"
Cancelled == "Certificate generation cancelled by user."

\* C18: review mode takes the names in list order and stops at the first
\* cancel: the certificates generated are those of a prefix of the list, a
\* review step either accepts (the certificate of the reviewed name is
\* generated, then the next name is reviewed or the run ends with the
\* status 'All certificates generated with manual review!') or cancels (nothing
\* more is reviewed or generated, the status is 'Certificate generation
\* cancelled by user.'), and the completion status is set only when every name
\* has its certificate.
C18_ReviewPrefixUntilCancel ==
    /\ [](ReviewMode =>
            /\ Len(written) <= Len(names)
            /\ \A i \in 1 .. Len(written) : written[i] = review_output_filename(names[i])
            /\ pc = "reviewing" => Len(written) = idx - 1
            /\ (pc = "done" /\ progress_status.text = AllReviewed)
                  => Len(written) = Len(names))
    /\ [][ReviewMode =>
            /\ pc = "reviewing" =>
                 \/ /\ written' = Append(written, review_output_filename(names[idx]))
                    /\ cert'.name = names[idx]
                    /\ IF idx < Len(names)
                       THEN /\ pc' = "reviewing" /\ idx' = idx + 1
                            /\ progress_status'.text \notin {AllReviewed, Cancelled}
                       ELSE /\ pc' = "done"
                            /\ progress_status'.text = AllReviewed
                 \/ /\ written' = written
                    /\ pc' = "done"
                    /\ progress_status'.text = Cancelled
            /\ pc = "done" => (written' = << >> /\ pc' = "idle")
            /\ (progress_status'.text = AllReviewed /\ progress_status.text # AllReviewed)
                  => (pc' = "done" /\ Len(written') = Len(names'))]_vars

\* The second review of a list of two names was cancelled after the first
\* was accepted.
C18_Witness ==
    /\ ReviewMode
    /\ pc = "done"
    /\ progress_status.text = Cancelled
    /\ Len(written) = 1
    /\ Len(names) = 2
    /\ names[1] # names[2]

\* C19: at the start of every review run the carried size is reset, so the
\* default size of the first name is its auto-fit size with the selected font;
\* for every later name the default size is max(5, min(rect.height, the size
\* accepted for the previous name)) and the default font is the font accepted
\* for the previous name.
C19_CarryOver ==
    (ReviewMode /\ pc = "reviewing") =>
        IF idx = 1
        THEN /\ initial_size = calculate_initial_font_size(names[1], selected_font, rect_info)
             /\ last_font = selected_font
        ELSE /\ cert.name = names[idx - 1]
             /\ initial_size = Max(5, Min(rect_info.rect_height, cert.size))
             /\ last_font = cert.font

\* The first review of a later run: the status of the earlier run is still
\* shown and the default is an auto-fit size below the rectangle height.
C19_Witness ==
    /\ app = "review"
    /\ pc = "reviewing"
    /\ idx = 1
    /\ progress_status.text \in {AllReviewed, Cancelled}
    /\ initial_size < rect_info.rect_height

AllAuto == "All certificates generated automatically!"

\* The status 'Saved k/n: <name>' for the k-th name of the list.
SavedStatus(k) ==
    [text |-> "Saved", k |-> k, n |-> Len(names), name |-> names[k], missing |-> << >>]

\* C20: start_generation generates the certificates in list order; after the
\* k-th certificate the progress value is k and the status is 'Saved k/n:
\* <name>'; the status 'All certificates generated automatically!' is set only
\* after all n names have their certificate (progress value n).
C20_AutoProgress ==
    /\ []((app = "auto" /\ pc \in {"generating", "done"}) =>
            /\ Len(written) <= Len(names)
            /\ \A i \in 1 .. Len(written) :
                  written[i] = auto_output_filename(output_dir, names[i])
            /\ (Len(written) >= 1 /\ progress_status.text # AllAuto)
                  => /\ progress_value = Len(written)
                     /\ progress_status = SavedStatus(Len(written))
            /\ progress_status.text = AllAuto
                  => /\ pc = "done"
                     /\ Len(written) = Len(names)
                     /\ progress_value = Len(names))
    /\ [][app = "auto" =>
            /\ (written' # written /\ written' # << >>)
                  => /\ Len(written') = Len(written) + 1
                     /\ cert'.name = names[Len(written')]
                     /\ progress_value' = Len(written')
            /\ (progress_status'.text = AllAuto /\ progress_status.text # AllAuto)
                  => /\ Len(written) = Len(names)
                     /\ UNCHANGED <<written, progress_value>>]_vars

\* A run over two names that reached the completion status.
C20_Witness ==
    /\ app = "auto"
    /\ pc = "done"
    /\ progress_status.text = AllAuto
    /\ Len(names) = 2
    /\ progress_value = 2
    /\ Len(written) = 2

Digits == {"0", "1", "2", "3", "4", "5", "6", "7", "8", "9"}

\* Number of digits s starts with.
RECURSIVE LeadingDigits(_)
LeadingDigits(s) ==
    IF s # << >> /\ Head(s) \in Digits THEN 1 + LeadingDigits(Tail(s)) ELSE 0

\* s is '<number>. <name>'.
HasNumberPrefix(s) ==
    LET d == LeadingDigits(s)
    IN /\ d >= 1
       /\ Len(s) >= d + 3
       /\ s[d + 1] = "."
       /\ s[d + 2] = " "

\* What cleaning is to make of a non-blank line: the name after the number
\* prefix, or the line without its surrounding whitespace.
ExpectedName(line) ==
    LET s == strip(line)
    IN IF HasNumberPrefix(s) THEN SubSeq(s, LeadingDigits(s) + 3, Len(s)) ELSE s

\* C21: cleaning removes only a leading number-and-dot prefix: a non-blank line
\* '<number>. <name>' gives '<name>' in the output, and any other non-blank
\* line is written without its surrounding whitespace, otherwise unchanged.
C21_OnlyNumberPrefixRemoved ==
    (app = "clean" /\ pc = "done") =>
        \A i \in 1 .. Len(lines) :
            strip(lines[i]) # << >> => ExpectedName(lines[i]) \in Range(written)

IsNonBlank(line) == strip(line) # << >>

\* The cleaned names in the order of their input lines.
CleanedInInputOrder ==
    LET kept == SelectSeq(lines, IsNonBlank)
    IN [i \in 1 .. Len(kept) |-> split_name(strip(kept[i]))]

\* C22: the output has one line per non-blank input line, in non-decreasing
\* length, and names of equal length keep their input order.
C22_SortedByLengthStable ==
    (app = "clean" /\ pc = "done") =>
        /\ Len(written) = Len(SelectSeq(lines, IsNonBlank))
        /\ \A i, j \in 1 .. Len(written) : i < j => Len(written[i]) <= Len(written[j])
        /\ \A n \in { Len(written[i]) : i \in 1 .. Len(written) } :
              SelectSeq(written, LAMBDA x : Len(x) = n)
                 = SelectSeq(CleanedInInputOrder, LAMBDA x : Len(x) = n)

\* Two different names of one length, read before a shorter one, and a blank
\* line less in the output.
C22_Witness ==
    /\ app = "clean"
    /\ pc = "done"
    /\ Len(names) = 3
    /\ Len(written) = 3
    /\ Len(written[1]) < Len(written[2])
    /\ Len(written[2]) = Len(written[3])
    /\ written[2] # written[3]
    /\ written[2] = names[1]
    /\ written[1] = names[3]

\* C23: in both apps, after every user operation, the start button is enabled
\* exactly when a template is loaded, the names list is not empty and a
\* rectangle is set, and in auto mode an output folder is set as well.
C23_ReadyState ==
    app \in {"auto", "review"} =>
        (start_button = "normal"
            <=> (Prerequisites /\ (app = "auto" => output_dir # "")))

\* The theme was switched to light with everything selected, and the rebuilt
\* button is enabled.
C23_Witness ==
    /\ app = "auto"
    /\ pc = "idle"
    /\ theme_name = "light"
    /\ Prerequisites
    /\ progress_status.text = "Ready to generate automatically"
    /\ start_button = "normal"

\* The rectangles calculate_rect gives for an accepted drag on a page of
\* the given height.
RectsOnPage(page_height) ==
    { calculate_rect(sel[1], sel[2], page_height) : sel \in { d \in Drags : d[1] # d[2] } }

\* C24: a successful choose_pdf clears rect_info, so whenever a certificate is
\* generated in one of the apps, rect_info was computed by calculate_rect with
\* the page height of the template that is loaded.
C24_RectFromLoadedTemplate ==
    (app \in {"auto", "review"} /\ written # << >>)
        => rect_info \in RectsOnPage(PageHeight(pdf_path))

\* The text of area_status that goes with a value of rect_info.
AreaStatusOf(rect) ==
    IF rect = NoRect
    THEN {AreaStatus("Area not selected"),
          AreaStatus("Area not selected - draw a rectangle and confirm"),
          AreaStatus("Area not selected - rectangle has zero size")}
    ELSE {[text |-> "Selected area", w |-> rect.rect_width, h |-> rect.rect_height]}

\* C25: in both apps area_status reads 'Area not selected...' exactly when
\* rect_info is None, and otherwise 'Selected area: W x H px' with the width
\* and height of the stored rectangle.
C25_AreaStatusMatchesRect ==
    app \in {"auto", "review"} => area_status \in AreaStatusOf(rect_info)

\* C26: a failed load_pdf_preview changes nothing, so in both apps pix and
\* img are the preview of the template named by pdf_path, or all three are
\* unset.
C26_PreviewOfLoadedTemplate ==
    app \in {"auto", "review"} =>
        \/ pdf_path = "" /\ pix = NoPix /\ img = ""
        \/ pdf_path # "" /\ pix = PixOf(pdf_path) /\ img = pdf_path

\* C27: for any measure function, non-decreasing in the size or not, the size
\* search returns the largest size of [5, min(rect.height, 120)] whose measured
\* width is at most rect.width, and 5 when there is none.
C27_LargestFitAnyMeasure ==
    SizeSearched => initial_size = LargestFit(args.text, args.font, rect_info)

\* A measure that is not monotone: the size returned fits, the start did not,
\* and the next smaller size does not fit either.
C27_Witness ==
    /\ SizeSearched
    /\ ~NonDecreasing(args.text, args.font)
    /\ initial_size > 6
    /\ initial_size < Min(rect_info.rect_height, 120)
    /\ initial_size \in FittingSizes(args.text, args.font, rect_info)
    /\ initial_size - 1 \notin FittingSizes(args.text, args.font, rect_info)

\* The sizes measured so far are start, start - 1, ... without a gap.
MeasuredDownFromStart ==
    \A i \in 1 .. Len(measured) : measured[i] = search_start(rect_info) - (i - 1)

\* C28: the size search terminates for every rectangle and every measure: the
\* size decreases by one from start = (int(min(rect.height, 120)) or 5), the
\* loop stops at the first fit or when the size is below 5, and stringWidth is
\* called at most once per size and only at sizes of [5, start].
C28_SearchTerminates ==
    /\ <>(pc = "returned")
    /\ [](/\ MeasuredDownFromStart
          /\ \A i \in 1 .. Len(measured) :
                /\ measured[i] \in MinSize .. search_start(rect_info)
                /\ i < Len(measured)
                      => ~size_fits(args.text, args.font, rect_info, measured[i])
          /\ pc = "returned" =>
                \/ /\ measured # << >>
                   /\ size_fits(args.text, args.font, rect_info, measured[Len(measured)])
                   /\ initial_size = measured[Len(measured)]
                \/ /\ search_size < MinSize
                   /\ Len(measured) = Max(0, search_start(rect_info) - (MinSize - 1))
                   /\ initial_size = MinSize)

\* A search that ran out: every size from a start above 5 down to 5 was
\* measured once, none fitted, and the function returned.
C28_Witness ==
    /\ app = "search"
    /\ pc = "returned"
    /\ search_size = MinSize - 1
    /\ search_start(rect_info) > MinSize
    /\ Len(measured) = search_start(rect_info) - (MinSize - 1)
    /\ initial_size = MinSize

\* A certificate placed by the loop body of start_generation: written by a run
\* of the auto app, or placed by a direct call of the same computation.
AutoPlaced ==
    \/ app = "auto" /\ cert # NoCert
    \/ app = "calc" /\ args.op = "auto_position"

\* C29: in auto mode, when the name fits at some size of
\* [5, min(rect.height, 120)], the certificate is drawn inside the rectangle:
\* left <= x, x + measure(name, font, size) <= left + width, bottom <= y and
\* y + size <= bottom + height (x and y in half units).
C29_AutoContained ==
    (AutoPlaced /\ FittingSizes(cert.name, cert.font, rect_info) # {}) =>
        LET text_width == stringWidth(cert.name, cert.font, cert.size)
        IN /\ 2 * rect_info.x_left <= cert.x
           /\ cert.x + 2 * text_width <= 2 * (rect_info.x_left + rect_info.rect_width)
           /\ 2 * rect_info.y_bottom <= cert.y
           /\ cert.y + 2 * cert.size <= 2 * (rect_info.y_bottom + rect_info.rect_height)

\* The second certificate of an auto run, of a name that fits below the
\* starting size and is narrower than the rectangle at the size found.
C29_Witness ==
    /\ app = "auto"
    /\ Len(written) = 2
    /\ cert # NoCert
    /\ cert.name = names[2]
    /\ cert.size \in FittingSizes(cert.name, cert.font, rect_info)
    /\ cert.size < Min(rect_info.rect_height, 120)
    /\ stringWidth(cert.name, cert.font, cert.size) < rect_info.rect_width
    /\ cert.x > 2 * rect_info.x_left

====
